---- MODULE Spec2Model ----
(***************************************************************************)
(* Sales dashboard (app.py): load_data, apply_filters, compute_kpis, the   *)
(* three plot_revenue_by_* aggregations, build_top_products_table and the  *)
(* script body main(), which Streamlit re-runs on every interaction.       *)
(*                                                                         *)
(* A DataFrame is [columns |-> set of column names, rows |-> sequence of   *)
(* records].  Money is an integer; the true division of avg_ticket is a    *)
(* reduced fraction [num, den].  A timestamp is the integer mmddhh of the  *)
(* year 2023 and its calendar day (.dt.date) is mmdd.  An optional value   *)
(* (a Python name not yet bound) is the empty set, a bound one {v}.        *)
(***************************************************************************)
EXTENDS Integers, Sequences, FiniteSets, TLC

VARIABLES source, pc, df, selection, df_filtered, kpis, daily_revenue,
          city_revenue, channel_revenue, top_products, table_shown, messages

vars == <<source, pc, df, selection, df_filtered, kpis, daily_revenue,
          city_revenue, channel_revenue, top_products, table_shown, messages>>

\* Longest record set drawn as an input.
MaxRows == 3

None == {}
Some(v) == {v}
Val(o) == CHOOSE v \in o : TRUE

(***************************************************************************)
(* Input data                                                              *)
(***************************************************************************)

required_columns ==
    <<"data_venda", "id_pedido", "cidade", "canal_venda",
      "categoria_produto", "produto", "valor_total">>

RequiredSet == {required_columns[i] : i \in DOMAIN required_columns}

\* Every string that occurs as a grouping key, in Python's string order.
Alphabet == <<"Cabo", "Casa", "Eletro", "Loja", "Mouse", "Online", "RJ", "SP", "Teclado">>

StrRank(s) == CHOOSE i \in DOMAIN Alphabet : Alphabet[i] = s

RawRow(m, d, h, id, cid, can, cat, prod, val) ==
    [data_venda |-> <<m, d, h>>, id_pedido |-> id, cidade |-> cid,
     canal_venda |-> can, categoria_produto |-> cat, produto |-> prod,
     valor_total |-> val]

\* Lines of a CSV file, the date still as written in the file (month, day, hour).
CsvLines ==
    { RawRow(1, 15, 0,  1, "SP", "Online", "Eletro", "Mouse",   100),
      RawRow(1, 20, 0,  1, "RJ", "Loja",   "Eletro", "Teclado", 200),
      RawRow(2, 10, 0,  2, "SP", "Loja",   "Casa",   "Cabo",    150),
      RawRow(1, 15, 14, 3, "RJ", "Online", "Casa",   "Cabo",    100),
      RawRow(1, 20, 9,  2, "SP", "Online", "Eletro", "Mouse",   0 - 50) }

\* A line whose date pd.to_datetime cannot parse.
BadDateLine == RawRow(13, 45, 0, 1, "SP", "Online", "Eletro", "Mouse", 100)

CsvBodies == UNION { [1..n -> CsvLines] : n \in 0..MaxRows }

\* Calendar days the date picker offers (clipped to [min_value, max_value]).
Calendar == {115, 117, 120, 210}

ValidDate(raw) == raw[1] \in 1..12 /\ raw[2] \in 1..31 /\ raw[3] \in 0..23

\* pd.to_datetime on one cell
to_datetime(raw) == raw[1] * 10000 + raw[2] * 100 + raw[3]

\* Timestamp.date()
DateOf(ts) == ts \div 100

EmptyFrame == [columns |-> {}, rows |-> <<>>]

\* DataFrame.empty: no rows or no columns.
IsEmpty(frame) == frame.rows = <<>> \/ frame.columns = {}


Min(S) == CHOOSE x \in S : \A y \in S : x <= y
Max(S) == CHOOSE x \in S : \A y \in S : x >= y

Abs(x) == IF x < 0 THEN 0 - x ELSE x

RECURSIVE Gcd(_, _)
Gcd(a, b) == IF b = 0 THEN a ELSE Gcd(b, a % b)

\* Python's true division a / b for b > 0, as a reduced fraction.
TrueDiv(a, b) ==
    LET g == Gcd(Abs(a), b) IN [num |-> a \div g, den |-> b \div g]

\* The float 0.0
Zero == [num |-> 0, den |-> 1]

(***************************************************************************)
(* load_data                                                               *)
(***************************************************************************)

\* What the uploader (or the default path) hands to main.
\*   present: a file was uploaded or the default file exists
\*   parses:  pd.read_csv accepts it
Sources ==
    { [present |-> FALSE, parses |-> FALSE, columns |-> {}, body |-> <<>>],
      [present |-> TRUE,  parses |-> FALSE, columns |-> {}, body |-> <<>>] }
    \cup [present : {TRUE}, parses : {TRUE}, columns : {RequiredSet}, body : CsvBodies]
    \cup [present : {TRUE}, parses : {TRUE}, columns : (SUBSET RequiredSet) \ {{}, RequiredSet},
          body : {<<>>, <<BadDateLine>>}]
    \cup [present : {TRUE}, parses : {TRUE}, columns : {RequiredSet},
          body : {<<BadDateLine>>}]

\* load_data: [frame, error]; error is the st.error of the except branch.
load_data(file) ==
    IF ~file.parses
    THEN [frame |-> EmptyFrame, error |-> TRUE]
    ELSE IF "data_venda" \in file.columns
         THEN IF \E i \in DOMAIN file.body : ~ValidDate(file.body[i].data_venda)
              THEN [frame |-> EmptyFrame, error |-> TRUE]
              ELSE [frame |-> [columns |-> file.columns,
                               rows |-> [i \in DOMAIN file.body |->
                                   [file.body[i] EXCEPT !.data_venda = to_datetime(@)]]],
                    error |-> FALSE]
         ELSE [frame |-> [columns |-> file.columns, rows |-> file.body],
               error |-> FALSE]

(***************************************************************************)
(* apply_filters                                                           *)
(***************************************************************************)

\* df[mask], the mask given as the set of records it marks True
Keep(frame, mask) == [frame EXCEPT !.rows = SelectSeq(@, LAMBDA r : r \in mask)]

\* The records of a frame, to build masks from
Records(frame) == {frame.rows[i] : i \in DOMAIN frame.rows}

\* df[col].unique()
Unique(frame, col) == {frame.rows[i][col] : i \in DOMAIN frame.rows}

DateFilterShown(frame) == "data_venda" \in frame.columns /\ ~IsEmpty(frame)

min_date(frame) == Min({DateOf(frame.rows[i].data_venda) : i \in DOMAIN frame.rows})
max_date(frame) == Max({DateOf(frame.rows[i].data_venda) : i \in DOMAIN frame.rows})

\* Values st.sidebar.date_input can return for a range picker: no date, the
\* start alone (selection in progress), or start and end.
DateInputValues(frame) ==
    IF DateFilterShown(frame)
    THEN LET days == {d \in Calendar : min_date(frame) <= d /\ d <= max_date(frame)}
         IN  {<<>>} \cup {<<d>> : d \in days}
                    \cup {r \in {<<a, b>> : a \in days, b \in days} : r[1] <= r[2]}
    ELSE {<<>>}

\* date_filter comparing the timestamps, not their days, with the bounds.
date_filter_on_timestamps(frame, date_range) ==
    IF DateFilterShown(frame)
    THEN IF Len(date_range) = 2
         THEN Keep(frame, {r \in Records(frame) : r.data_venda >= date_range[1] * 100
                                     /\ r.data_venda <= date_range[2] * 100})
         ELSE IF Len(date_range) = 1
              THEN Keep(frame, {r \in Records(frame) : DateOf(r.data_venda) = date_range[1]})
              ELSE frame
    ELSE frame

\* date_filter reading a single date as the start of an open-ended range.
date_filter_open_ended(frame, date_range) ==
    IF DateFilterShown(frame)
    THEN IF Len(date_range) = 2
         THEN Keep(frame, {r \in Records(frame) : DateOf(r.data_venda) >= date_range[1]
                                     /\ DateOf(r.data_venda) <= date_range[2]})
         ELSE IF Len(date_range) = 1
              THEN Keep(frame, {r \in Records(frame) : DateOf(r.data_venda) >= date_range[1]})
              ELSE frame
    ELSE frame

date_filter(frame, date_range) ==
    IF DateFilterShown(frame)
    THEN IF Len(date_range) = 2
         THEN Keep(frame, {r \in Records(frame) : DateOf(r.data_venda) >= date_range[1]
                                     /\ DateOf(r.data_venda) <= date_range[2]})
         ELSE IF Len(date_range) = 1
              THEN Keep(frame, {r \in Records(frame) : DateOf(r.data_venda) = date_range[1]})
              ELSE frame
    ELSE frame

\* Values st.sidebar.multiselect can return: any subset of its options.
MultiselectValues(frame, col) ==
    IF col \in frame.columns THEN SUBSET Unique(frame, col) ELSE {{}}

\* city_filter without the "if selected_cities" guard.
city_filter_no_guard(frame, selected_cities) ==
    IF "cidade" \in frame.columns
    THEN Keep(frame, {r \in Records(frame) : r.cidade \in selected_cities})
    ELSE frame

city_filter(frame, selected_cities) ==
    IF "cidade" \in frame.columns /\ selected_cities # {}
    THEN Keep(frame, {r \in Records(frame) : r.cidade \in selected_cities})
    ELSE frame

channel_filter(frame, selected_channels) ==
    IF "canal_venda" \in frame.columns /\ selected_channels # {}
    THEN Keep(frame, {r \in Records(frame) : r.canal_venda \in selected_channels})
    ELSE frame

category_filter(frame, selected_categories) ==
    IF "categoria_produto" \in frame.columns /\ selected_categories # {}
    THEN Keep(frame, {r \in Records(frame) : r.categoria_produto \in selected_categories})
    ELSE frame

\* apply_filters with the four widget values it reads.
apply_filters(frame, sel) ==
    category_filter(
        channel_filter(
            city_filter(date_filter(frame, sel.date_range), sel.cities),
            sel.channels),
        sel.categories)

\* The widget values one run of apply_filters can read: each multiselect
\* offers the values left by the filters above it.
WidgetSelections(frame) ==
    UNION { UNION { UNION {
        { [date_range |-> dr, cities |-> sc, channels |-> sh, categories |-> sk] :
            sk \in MultiselectValues(
                     channel_filter(city_filter(date_filter(frame, dr), sc), sh),
                     "categoria_produto") } :
        sh \in MultiselectValues(city_filter(date_filter(frame, dr), sc), "canal_venda") } :
        sc \in MultiselectValues(date_filter(frame, dr), "cidade") } :
        dr \in DateInputValues(frame) }

(***************************************************************************)
(* compute_kpis                                                            *)
(***************************************************************************)

RECURSIVE SumValues(_)
SumValues(rows) ==
    IF rows = <<>> THEN 0 ELSE Head(rows).valor_total + SumValues(Tail(rows))

\* Series.nunique()
NUnique(rows, col) == Cardinality({rows[i][col] : i \in DOMAIN rows})

\* compute_kpis counting records, not distinct order ids.
compute_kpis_counts_rows(frame) ==
    IF IsEmpty(frame)
    THEN [total_revenue |-> 0, order_count |-> 0, avg_ticket |-> Zero]
    ELSE LET total_revenue == SumValues(frame.rows)
             order_count == Len(frame.rows)
         IN  [total_revenue |-> total_revenue,
              order_count |-> order_count,
              avg_ticket |-> IF order_count > 0
                             THEN TrueDiv(total_revenue, order_count)
                             ELSE Zero]

compute_kpis(frame) ==
    IF IsEmpty(frame)
    THEN [total_revenue |-> 0, order_count |-> 0, avg_ticket |-> Zero]
    ELSE LET total_revenue == SumValues(frame.rows)
             order_count == NUnique(frame.rows, "id_pedido")
         IN  [total_revenue |-> total_revenue,
              order_count |-> order_count,
              avg_ticket |-> IF order_count > 0
                             THEN TrueDiv(total_revenue, order_count)
                             ELSE Zero]

(***************************************************************************)
(* Aggregations                                                            *)
(***************************************************************************)

\* Position of a group key in the sorted key order: a timestamp by its
\* value, a string by Python's string order.
KeyRank(col, k) == IF col = "data_venda" THEN k ELSE StrRank(k)

\* The group keys of a column in increasing order: groupby sorts its keys.
SortedKeys(rows, col) ==
    LET S == {rows[i][col] : i \in DOMAIN rows}
    IN  CHOOSE s \in [1..Cardinality(S) -> S] :
            \A i, j \in 1..Cardinality(S) :
                i < j => KeyRank(col, s[i]) < KeyRank(col, s[j])

RowsOf(rows, col, k) == SelectSeq(rows, LAMBDA r : r[col] = k)

\* df.groupby(col)['valor_total'].sum().reset_index()
groupby_sum(rows, col) ==
    LET keys == SortedKeys(rows, col)
    IN  [i \in DOMAIN keys |->
            [key |-> keys[i], valor_total |-> SumValues(RowsOf(rows, col, keys[i]))]]

Perms(n) == {p \in [1..n -> 1..n] : \A i, j \in 1..n : i # j => p[i] # p[j]}

\* DataFrame.sort_values(by=..., ascending=...) with the default kind
\* 'quicksort', which is not stable: every ordering of the rows that is
\* sorted on the key is a possible result.
sort_values(table, by, ascending) ==
    { [i \in DOMAIN table |-> table[p[i]]] : p \in
        { q \in Perms(Len(table)) :
            \A i \in 1..(Len(table) - 1) :
                IF ascending THEN table[q[i]][by] <= table[q[i + 1]][by]
                             ELSE table[q[i]][by] >= table[q[i + 1]][by] } }

\* daily_revenue of plot_revenue_by_day
revenue_by_day(frame) == groupby_sum(frame.rows, "data_venda")

\* revenue_by_city sorted with ascending=False.
revenue_by_city_descending(frame) ==
    sort_values(groupby_sum(frame.rows, "cidade"), "valor_total", FALSE)

\* the possible city_revenue of plot_revenue_by_city
revenue_by_city(frame) ==
    sort_values(groupby_sum(frame.rows, "cidade"), "valor_total", TRUE)

\* channel_revenue of plot_revenue_by_channel
revenue_by_channel(frame) == groupby_sum(frame.rows, "canal_venda")

\* df.groupby('produto').agg(pedidos=nunique, faturamento=sum).reset_index()
groupby_produto(rows) ==
    LET keys == SortedKeys(rows, "produto")
    IN  [i \in DOMAIN keys |->
            [produto |-> keys[i],
             pedidos |-> NUnique(RowsOf(rows, "produto", keys[i]), "id_pedido"),
             faturamento |-> SumValues(RowsOf(rows, "produto", keys[i]))]]

\* build_top_products_table sorted with ascending=True.
build_top_products_table_ascending(frame) ==
    IF IsEmpty(frame)
    THEN {<<>>}
    ELSE sort_values(groupby_produto(frame.rows), "faturamento", TRUE)

\* build_top_products_table cutting the ranking to its first two rows itself.
build_top_products_table_top2(frame) ==
    IF IsEmpty(frame)
    THEN {<<>>}
    ELSE {SubSeq(t, 1, IF Len(t) < 2 THEN Len(t) ELSE 2) :
            t \in sort_values(groupby_produto(frame.rows), "faturamento", FALSE)}

\* the possible results of build_top_products_table
build_top_products_table(frame) ==
    IF IsEmpty(frame)
    THEN {<<>>}
    ELSE sort_values(groupby_produto(frame.rows), "faturamento", FALSE)


(***************************************************************************)
(* main: one action per stage of the script                                *)
(***************************************************************************)

Msg(level, text) == [level |-> level, text |-> text, columns |-> <<>>]

\* Rows of the ranking the table widget shows: top_products_df.head(10)
TopN == 10

head(table, n) == SubSeq(table, 1, IF Len(table) < n THEN Len(table) ELSE n)

Fresh(src) ==
    /\ source = src
    /\ pc = "load"
    /\ df = None
    /\ selection = None
    /\ df_filtered = None
    /\ kpis = None
    /\ daily_revenue = None
    /\ city_revenue = None
    /\ channel_revenue = None
    /\ top_products = None
    /\ table_shown = None
    /\ messages = <<>>

Init == \E src \in Sources : Fresh(src)

\* 1. Data Loading: the uploader, the default path, load_data
LoadData ==
    /\ pc = "load"
    /\ IF ~source.present
       THEN /\ messages' = Append(messages, Msg("warning", "upload_a_file"))
            /\ pc' = "halted"
            /\ df' = df
       ELSE LET r == load_data(source)
            IN  /\ df' = Some(r.frame)
                /\ messages' = IF r.error
                               THEN Append(messages, Msg("error", "load_failed"))
                               ELSE messages
                /\ pc' = "check_empty"
    /\ UNCHANGED <<source, selection, df_filtered, kpis, daily_revenue,
                   city_revenue, channel_revenue, top_products, table_shown>>

\* CheckEmpty without the return.
CheckEmpty_NoReturn ==
    /\ pc = "check_empty"
    /\ messages' = IF IsEmpty(Val(df))
                   THEN Append(messages, Msg("error", "empty_or_invalid"))
                   ELSE messages
    /\ pc' = "validate"
    /\ UNCHANGED <<source, df, selection, df_filtered, kpis, daily_revenue,
                   city_revenue, channel_revenue, top_products, table_shown>>

\* if df.empty: st.error(...); return
CheckEmpty ==
    /\ pc = "check_empty"
    /\ IF IsEmpty(Val(df))
       THEN /\ messages' = Append(messages, Msg("error", "empty_or_invalid"))
            /\ pc' = "halted"
       ELSE /\ messages' = messages
            /\ pc' = "validate"
    /\ UNCHANGED <<source, df, selection, df_filtered, kpis, daily_revenue,
                   city_revenue, channel_revenue, top_products, table_shown>>

missing_columns(frame) == SelectSeq(required_columns, LAMBDA col : col \notin frame.columns)

\* ValidateColumns without the return.
ValidateColumns_NoReturn ==
    /\ pc = "validate"
    /\ messages' = IF missing_columns(Val(df)) # <<>>
                   THEN Append(messages,
                            [level |-> "error", text |-> "missing_columns",
                             columns |-> missing_columns(Val(df))])
                   ELSE messages
    /\ pc' = "filters"
    /\ UNCHANGED <<source, df, selection, df_filtered, kpis, daily_revenue,
                   city_revenue, channel_revenue, top_products, table_shown>>

\* Validate required columns
ValidateColumns ==
    /\ pc = "validate"
    /\ IF missing_columns(Val(df)) # <<>>
       THEN /\ messages' = Append(messages,
                   [level |-> "error", text |-> "missing_columns",
                    columns |-> missing_columns(Val(df))])
            /\ pc' = "halted"
       ELSE /\ messages' = messages
            /\ pc' = "filters"
    /\ UNCHANGED <<source, df, selection, df_filtered, kpis, daily_revenue,
                   city_revenue, channel_revenue, top_products, table_shown>>

\* ApplyFilters without the return when nothing is left.
ApplyFilters_NoReturn ==
    /\ pc = "filters"
    /\ \E sel \in WidgetSelections(Val(df)) :
          LET out == apply_filters(Val(df), sel)
          IN  /\ selection' = Some(sel)
              /\ df_filtered' = Some(out)
              /\ messages' = IF IsEmpty(out)
                             THEN Append(messages, Msg("warning", "no_data_for_filters"))
                             ELSE messages
              /\ pc' = "kpis"
    /\ UNCHANGED <<source, df, kpis, daily_revenue, city_revenue,
                   channel_revenue, top_products, table_shown>>

\* 2. Filters, and the return when nothing is left
ApplyFilters ==
    /\ pc = "filters"
    /\ \E sel \in WidgetSelections(Val(df)) :
          LET out == apply_filters(Val(df), sel)
          IN  /\ selection' = Some(sel)
              /\ df_filtered' = Some(out)
              /\ IF IsEmpty(out)
                 THEN /\ messages' = Append(messages, Msg("warning", "no_data_for_filters"))
                      /\ pc' = "halted"
                 ELSE /\ messages' = messages
                      /\ pc' = "kpis"
    /\ UNCHANGED <<source, df, kpis, daily_revenue, city_revenue,
                   channel_revenue, top_products, table_shown>>

\* 3. KPIs
ComputeKpis ==
    /\ pc = "kpis"
    /\ kpis' = Some(compute_kpis(Val(df_filtered)))
    /\ pc' = "by_day"
    /\ UNCHANGED <<source, df, selection, df_filtered, daily_revenue, city_revenue,
                   channel_revenue, top_products, table_shown, messages>>

\* 4. Charts
PlotRevenueByDay ==
    /\ pc = "by_day"
    /\ IF IsEmpty(Val(df_filtered))
       THEN /\ messages' = Append(messages, Msg("info", "no_data_by_day"))
            /\ daily_revenue' = daily_revenue
       ELSE /\ messages' = messages
            /\ daily_revenue' = Some(revenue_by_day(Val(df_filtered)))
    /\ pc' = "by_city"
    /\ UNCHANGED <<source, df, selection, df_filtered, kpis, city_revenue,
                   channel_revenue, top_products, table_shown>>

PlotRevenueByCity ==
    /\ pc = "by_city"
    /\ IF IsEmpty(Val(df_filtered))
       THEN /\ messages' = Append(messages, Msg("info", "no_data_by_city"))
            /\ city_revenue' = city_revenue
       ELSE /\ messages' = messages
            /\ \E sorted \in revenue_by_city(Val(df_filtered)) :
                  city_revenue' = Some(sorted)
    /\ pc' = "by_channel"
    /\ UNCHANGED <<source, df, selection, df_filtered, kpis, daily_revenue,
                   channel_revenue, top_products, table_shown>>

PlotRevenueByChannel ==
    /\ pc = "by_channel"
    /\ IF IsEmpty(Val(df_filtered))
       THEN /\ messages' = Append(messages, Msg("info", "no_data_by_channel"))
            /\ channel_revenue' = channel_revenue
       ELSE /\ messages' = messages
            /\ channel_revenue' = Some(revenue_by_channel(Val(df_filtered)))
    /\ pc' = "top_products"
    /\ UNCHANGED <<source, df, selection, df_filtered, kpis, daily_revenue,
                   city_revenue, top_products, table_shown>>

\* Top Produtos por Receita
BuildTopProducts ==
    /\ pc = "top_products"
    /\ \E top_products_df \in build_top_products_table(Val(df_filtered)) :
          /\ top_products' = Some(top_products_df)
          /\ IF top_products_df # <<>>
             THEN /\ table_shown' = Some(head(top_products_df, TopN))
                  /\ messages' = messages
             ELSE /\ table_shown' = table_shown
                  /\ messages' = Append(messages, Msg("info", "no_product_data"))
    /\ pc' = "done"
    /\ UNCHANGED <<source, df, selection, df_filtered, kpis, daily_revenue,
                   city_revenue, channel_revenue>>

\* Streamlit runs the script again on the next interaction, from the top.
Rerun ==
    /\ pc \in {"done", "halted"}
    /\ pc' = "load"
    /\ df' = None
    /\ selection' = None
    /\ df_filtered' = None
    /\ kpis' = None
    /\ daily_revenue' = None
    /\ city_revenue' = None
    /\ channel_revenue' = None
    /\ top_products' = None
    /\ table_shown' = None
    /\ messages' = <<>>
    /\ UNCHANGED source

Next ==
    \/ LoadData
    \/ CheckEmpty
    \/ ValidateColumns
    \/ ApplyFilters
    \/ ComputeKpis
    \/ PlotRevenueByDay
    \/ PlotRevenueByCity
    \/ PlotRevenueByChannel
    \/ BuildTopProducts
    \/ Rerun

Spec == Init /\ [][Next]_vars

(***************************************************************************)
(* The functions called one after the other on any loaded record set,      *)
(* without the early returns of main.                                      *)
(***************************************************************************)

LoadedSources ==
    [present : {TRUE}, parses : {TRUE}, columns : {RequiredSet}, body : CsvBodies]

CallInit ==
    \E src \in LoadedSources :
        /\ source = src
        /\ pc = "call_filters"
        /\ df = Some(load_data(src).frame)
        /\ selection = None
        /\ df_filtered = None
        /\ kpis = None
        /\ daily_revenue = None
        /\ city_revenue = None
        /\ channel_revenue = None
        /\ top_products = None
        /\ table_shown = None
        /\ messages = <<>>

CallApplyFilters ==
    /\ pc = "call_filters"
    /\ \E sel \in WidgetSelections(Val(df)) :
          /\ selection' = Some(sel)
          /\ df_filtered' = Some(apply_filters(Val(df), sel))
    /\ pc' = "kpis"
    /\ UNCHANGED <<source, df, kpis, daily_revenue, city_revenue,
                   channel_revenue, top_products, table_shown, messages>>

CallNext ==
    \/ CallApplyFilters
    \/ ComputeKpis
    \/ PlotRevenueByDay
    \/ PlotRevenueByCity
    \/ PlotRevenueByChannel
    \/ BuildTopProducts

CallSpec == CallInit /\ [][CallNext]_vars


(***************************************************************************)
(* Properties                                                              *)
(***************************************************************************)

Filtered == df_filtered # None
In == Val(df)
Sel == Val(selection)
Out == Val(df_filtered)

Day(r) == r.data_venda \div 100

\* The selection as one predicate on a record.
InDateRange(r, date_range) ==
    CASE Len(date_range) = 2 -> date_range[1] <= Day(r) /\ Day(r) <= date_range[2]
      [] Len(date_range) = 1 -> Day(r) = date_range[1]
      [] OTHER -> TRUE

Passes(r, sel) ==
    /\ InDateRange(r, sel.date_range)
    /\ sel.cities # {} => r.cidade \in sel.cities
    /\ sel.channels # {} => r.canal_venda \in sel.channels
    /\ sel.categories # {} => r.categoria_produto \in sel.categories

\* C1: the filter step returns exactly the records that pass every active
\* filter (day in [start, end], city, channel and category membership; an
\* empty set removes nothing), in their input order.
C1_FilterExact ==
    Filtered =>
        /\ Out.columns = In.columns
        /\ Out.rows = SelectSeq(In.rows, LAMBDA r : Passes(r, Sel))

C1_Witness ==
    /\ Filtered
    /\ Len(Sel.date_range) = 2
    /\ Sel.cities # {} /\ Sel.channels # {} /\ Sel.categories # {}
    /\ Out.rows # <<>>
    /\ Len(Out.rows) < Len(In.rows)

Days(rows) == [i \in DOMAIN rows |-> Day(rows[i])]

OnlyDateActive(sel) == sel.cities = {} /\ sel.channels = {} /\ sel.categories = {}

\* C2: with a single date (a start and no end) the filter keeps exactly the
\* records of that day; records on 01-15, 01-20 and 02-10 with the single
\* day 01-15 give exactly one record.
C2_SingleDate ==
    (Filtered /\ Len(Sel.date_range) = 1) =>
        /\ \A i \in DOMAIN Out.rows : Day(Out.rows[i]) = Sel.date_range[1]
        /\ OnlyDateActive(Sel) =>
              Out.rows = SelectSeq(In.rows, LAMBDA r : Day(r) = Sel.date_range[1])
        /\ (Days(In.rows) = <<115, 120, 210>> /\ Sel.date_range = <<115>>
            /\ OnlyDateActive(Sel)) => Len(Out.rows) = 1

C2_Witness ==
    /\ Filtered
    /\ Days(In.rows) = <<115, 120, 210>>
    /\ Sel.date_range = <<115>>
    /\ OnlyDateActive(Sel)
    /\ Len(Out.rows) = 1

\* The sum of valor_total, by prefix sums.
Total(rows) ==
    LET acc[i \in 0..Len(rows)] ==
            IF i = 0 THEN 0 ELSE acc[i - 1] + rows[i].valor_total
    IN  acc[Len(rows)]

OrderIds(rows) == {rows[i].id_pedido : i \in DOMAIN rows}

Values(rows) == [i \in DOMAIN rows |-> rows[i].valor_total]
Ids(rows) == [i \in DOMAIN rows |-> rows[i].id_pedido]

\* C3: total_revenue is the sum of total_value, order_count the number of
\* distinct order ids, avg_ticket their quotient, and exactly 0 when there
\* is no order; (order 1, 100), (order 1, 200), (order 2, 150) give 450, 2, 225.
C3_Kpis ==
    kpis # None =>
        LET k == Val(kpis)
            rows == Out.rows
        IN  /\ k.total_revenue = Total(rows)
            /\ k.order_count = Cardinality(OrderIds(rows))
            /\ k.avg_ticket.den > 0
            /\ k.order_count > 0 =>
                  k.avg_ticket.num * k.order_count = k.total_revenue * k.avg_ticket.den
            /\ k.order_count = 0 => k.avg_ticket = [num |-> 0, den |-> 1]
            /\ (Ids(rows) = <<1, 1, 2>> /\ Values(rows) = <<100, 200, 150>>) =>
                  k = [total_revenue |-> 450, order_count |-> 2,
                       avg_ticket |-> [num |-> 225, den |-> 1]]

C3_Witness ==
    /\ kpis # None
    /\ Ids(Out.rows) = <<1, 1, 2>>
    /\ Values(Out.rows) = <<100, 200, 150>>
    /\ Val(kpis).avg_ticket = [num |-> 225, den |-> 1]

C3_WitnessNoOrders ==
    /\ kpis # None
    /\ In.rows # <<>>
    /\ Val(kpis).order_count = 0
    /\ Val(kpis).avg_ticket = Zero

NoStageRan ==
    /\ kpis = None
    /\ daily_revenue = None
    /\ city_revenue = None
    /\ channel_revenue = None
    /\ top_products = None
    /\ table_shown = None

NothingLeft == Filtered /\ IsEmpty(Out)

\* C4 as stated: when no record matches, the run goes on to the end and the
\* KPI stage has produced the zero snapshot.
C4_Original ==
    (NothingLeft /\ pc \in {"done", "halted"}) =>
        /\ pc = "done"
        /\ kpis = Some([total_revenue |-> 0, order_count |-> 0, avg_ticket |-> Zero])

\* C4 (amended): when no record matches, main shows the warning and returns:
\* the KPI, chart and ranking stages do not run in that run.
C4_EmptyResultHalts ==
    NothingLeft =>
        /\ pc = "halted"
        /\ messages = <<Msg("warning", "no_data_for_filters")>>
        /\ NoStageRan

C4_Witness ==
    /\ NothingLeft
    /\ In.rows # <<>>
    /\ pc = "halted"

HeaderOnly ==
    /\ source.present /\ source.parses
    /\ source.columns = RequiredSet
    /\ source.body = <<>>

Finished == pc \in {"done", "halted"}

\* C5 as stated: a header-only source ends with the zero KPI snapshot, the
\* stages run and no error shown.
C5_Original ==
    (HeaderOnly /\ Finished) =>
        /\ kpis = Some([total_revenue |-> 0, order_count |-> 0, avg_ticket |-> Zero])
        /\ \A i \in DOMAIN messages : messages[i].level # "error"

\* C5 (amended): a header-only source with all required columns halts at
\* the empty check with the error "empty or invalid"; no filter, KPI,
\* chart or ranking stage runs.
C5_EmptySourceHalts ==
    HeaderOnly =>
        /\ df_filtered = None
        /\ NoStageRan
        /\ pc \notin {"validate", "filters", "done"}
        /\ Finished => messages = <<Msg("error", "empty_or_invalid")>>

C5_Witness ==
    /\ HeaderOnly
    /\ pc = "halted"
    /\ df = Some([columns |-> RequiredSet, rows |-> <<>>])

Products(rows) == {rows[i].produto : i \in DOMAIN rows}

TotalOf(rows, col, k) == Total(SelectSeq(rows, LAMBDA r : r[col] = k))

FirstSeen(rows, col, k) == Min({i \in DOMAIN rows : rows[i][col] = k})

RankingRows(t, rows) ==
    /\ Len(t) = Cardinality(Products(rows))
    /\ {t[i].produto : i \in DOMAIN t} = Products(rows)
    /\ \A i \in DOMAIN t :
          /\ t[i].faturamento = TotalOf(rows, "produto", t[i].produto)
          /\ t[i].pedidos =
                Cardinality(OrderIds(SelectSeq(rows, LAMBDA r : r.produto = t[i].produto)))
    /\ \A i \in 1..(Len(t) - 1) : t[i].faturamento >= t[i + 1].faturamento

\* C6 as stated: descending by summed value, ties in order of first
\* appearance in the input.
C6_Original ==
    top_products # None =>
        LET t == Val(top_products)
        IN  /\ RankingRows(t, Out.rows)
            /\ \A i, j \in DOMAIN t :
                  (i < j /\ t[i].faturamento = t[j].faturamento) =>
                      FirstSeen(Out.rows, "produto", t[i].produto)
                          < FirstSeen(Out.rows, "produto", t[j].produto)

\* C6 (amended): one row per distinct product with its summed value and
\* its distinct order count, ordered by summed value descending; the order
\* of products with equal sums is not fixed by first appearance.
C6_Ranking ==
    top_products # None => RankingRows(Val(top_products), Out.rows)

C6_Witness ==
    /\ top_products # None
    /\ Len(Val(top_products)) = 3
    /\ Val(top_products)[1].faturamento > Val(top_products)[2].faturamento
    /\ Val(top_products)[2].faturamento = Val(top_products)[3].faturamento
    /\ FirstSeen(Out.rows, "produto", Val(top_products)[2].produto)
           > FirstSeen(Out.rows, "produto", Val(top_products)[3].produto)


\* pd.read_csv and pd.to_datetime both accept the file.
SourceLoads ==
    /\ source.present /\ source.parses
    /\ "data_venda" \in source.columns =>
          \A i \in DOMAIN source.body : ValidDate(source.body[i].data_venda)

ColumnsComplete == RequiredSet \subseteq source.columns

MissingNamed ==
    [level |-> "error", text |-> "missing_columns",
     columns |-> SelectSeq(required_columns, LAMBDA col : col \notin source.columns)]

PastValidation ==
    pc \in {"filters", "kpis", "by_day", "by_city", "by_channel", "top_products", "done"}

HaltsBeforeFilters ==
    /\ (~SourceLoads \/ ~ColumnsComplete) =>
          /\ ~PastValidation
          /\ selection = None /\ df_filtered = None
          /\ NoStageRan
    /\ (Finished /\ source.present /\ ~SourceLoads) =>
          /\ pc = "halted"
          /\ messages # <<>>
          /\ \A i \in DOMAIN messages : messages[i].level = "error"
    /\ (df_filtered # None \/ ~NoStageRan) => (SourceLoads /\ ColumnsComplete)

\* C7 as stated: a failed load or a missing column halts the run with a
\* diagnostic, which names the missing columns whenever columns are missing.
C7_Original ==
    /\ HaltsBeforeFilters
    /\ (Finished /\ SourceLoads /\ ~ColumnsComplete) => messages = <<MissingNamed>>

\* C7 (amended): the diagnostic names the missing columns when the source
\* has at least one data row; with no data row the run already halts at the
\* empty check with the error "empty or invalid".
C7_HaltsWithDiagnostic ==
    /\ HaltsBeforeFilters
    /\ (Finished /\ SourceLoads /\ ~ColumnsComplete) =>
          messages = IF source.body # <<>>
                     THEN <<MissingNamed>>
                     ELSE <<Msg("error", "empty_or_invalid")>>

C7_Witness ==
    /\ SourceLoads /\ ~ColumnsComplete
    /\ source.body # <<>>
    /\ pc = "halted"
    /\ messages = <<MissingNamed>>
    /\ Len(MissingNamed.columns) = 2

C7_WitnessLoadFails ==
    /\ source.present /\ ~SourceLoads
    /\ pc = "halted"
    /\ Len(messages) = 2

NonNegative(rows) == \A i \in DOMAIN rows : rows[i].valor_total >= 0

\* Selections that narrow one filter of sel and leave the others alone.
NarrowedDates(dr, days) ==
    CASE Len(dr) = 0 ->
            {<<d>> : d \in days} \cup {r \in {<<a, b>> : a \in days, b \in days} : r[1] <= r[2]}
      [] Len(dr) = 2 ->
            LET inside == {d \in days : dr[1] <= d /\ d <= dr[2]}
            IN  {<<d>> : d \in inside}
                \cup {r \in {<<a, b>> : a \in inside, b \in inside} : r[1] <= r[2]}
      [] OTHER -> {dr}

NarrowedSet(chosen, options) ==
    IF chosen = {} THEN (SUBSET options) \ {{}} ELSE (SUBSET chosen) \ {{}}

Narrowings(sel, frame) ==
    {[sel EXCEPT !.date_range = dr] : dr \in NarrowedDates(sel.date_range, Calendar)}
    \cup {[sel EXCEPT !.cities = c] : c \in NarrowedSet(sel.cities, Unique(frame, "cidade"))}
    \cup {[sel EXCEPT !.channels = c] :
             c \in NarrowedSet(sel.channels, Unique(frame, "canal_venda"))}
    \cup {[sel EXCEPT !.categories = c] :
             c \in NarrowedSet(sel.categories, Unique(frame, "categoria_produto"))}

NoMoreThan(k1, k2) ==
    /\ k1.order_count <= k2.order_count
    /\ k1.total_revenue <= k2.total_revenue

\* C8: with non-negative values, the order count and the revenue of the
\* filtered set never exceed those of the unfiltered set, nor do those of a
\* selection with one filter narrowed further exceed those of the selection.
C8_FilterMonotone ==
    (pc = "by_day" /\ NonNegative(In.rows)) =>
        /\ NoMoreThan(Val(kpis), compute_kpis(In))
        /\ \A narrower \in Narrowings(Sel, In) :
              NoMoreThan(compute_kpis(apply_filters(In, narrower)), Val(kpis))

C8_Witness ==
    /\ pc = "by_day" /\ NonNegative(In.rows)
    /\ Val(kpis).order_count < compute_kpis(In).order_count
    /\ Val(kpis).total_revenue < compute_kpis(In).total_revenue
    /\ \E narrower \in Narrowings(Sel, In) :
          LET k == compute_kpis(apply_filters(In, narrower))
          IN  /\ 0 < k.order_count /\ k.order_count < Val(kpis).order_count
              /\ k.total_revenue < Val(kpis).total_revenue

SumRevenue(t) ==
    LET acc[i \in 0..Len(t)] == IF i = 0 THEN 0 ELSE acc[i - 1] + t[i].faturamento
    IN  acc[Len(t)]

\* C9: total_revenue of compute_kpis equals the sum of the revenue column
\* of the product ranking of the same filtered set.
C9_RevenueConservation ==
    (kpis # None /\ top_products # None) =>
        Val(kpis).total_revenue = SumRevenue(Val(top_products))

C9_Witness ==
    /\ kpis # None /\ top_products # None
    /\ Len(Val(top_products)) = 3
    /\ \A i \in 1..3 : Val(top_products)[i].faturamento > 0
    /\ Val(kpis).total_revenue = SumRevenue(Val(top_products))

\* C10: the by-city aggregate has one entry per distinct city of the
\* filtered set, each with the sum of that city's values, in ascending
\* order of the sums.
C10_CityOrder ==
    city_revenue # None =>
        LET c == Val(city_revenue)
        IN  /\ Len(c) = Cardinality(Unique(Out, "cidade"))
            /\ {c[i].key : i \in DOMAIN c} = Unique(Out, "cidade")
            /\ \A i \in DOMAIN c : c[i].valor_total = TotalOf(Out.rows, "cidade", c[i].key)
            /\ \A i \in 1..(Len(c) - 1) : c[i].valor_total <= c[i + 1].valor_total

C10_Witness ==
    /\ city_revenue # None
    /\ Len(Val(city_revenue)) = 2
    /\ Val(city_revenue)[1].key = "SP"
    /\ Val(city_revenue)[1].valor_total < Val(city_revenue)[2].valor_total

====
